---- MODULE Spec2Model ----
(***************************************************************************)
(* Model of the wsa-startup crate: a lifecycle guard around WSAStartup /   *)
(* WSACleanup (src/src/lib.rs) and its convenience wrappers                *)
(* (src/src/util.rs).                                                      *)
(*                                                                         *)
(* A lineage is one WsaInitializer and everything made from it: the Wsa    *)
(* handle that init returns and the WsaRaii guard that raii/clean make     *)
(* from the handle.  The foreign layer (WSAStartup, WSACleanup) is a test  *)
(* double: it returns a status chosen from a set and records its calls.    *)
(***************************************************************************)
EXTENDS Integers, Sequences, FiniteSets, TLC

\* ---------------------------------------------------------------- bounds
NumLineages == 2
CodeSpan == 100

Lineages == 1..NumLineages

\* ------------------------------------------------------------ input sets
\* statuses the WSAStartup double may return (i32)
StartupStatuses == {0, 10091, 99999}
\* statuses the WSACleanup double may return (0, or SOCKET_ERROR = -1)
CleanupStatuses == {0, -1}
\* values a caller may pass to version(): 1.1 and 2.2
NewVersions == {257, 514}
\* WSADATA records: the zero-filled one, one a caller injects, and the
\* one the foreign call writes
Zeroed == "zeroed"
NewData == {"zeroed", "injected"}
Written == {"negotiated"}
\* the ways a caller's scope ends
Exits == {"returned", "early", "unwound"}
\* codes handed to the classifier: a window around the table, and i32 edges
MaxI32 == 2147483647
MinI32 == -MaxI32 - 1
Codes == (10000..(10000 + CodeSpan)) \cup {0, -1, 99999, MinI32, MaxI32}

\* ------------------------------------------------------------------ state
VARIABLES
    cfg,          \* cfg[l]: the WsaInitializer of lineage l (live or gone)
    wsa,          \* wsa[l]: number of live Wsa handles of lineage l
    raii,         \* raii[l]: number of live WsaRaii guards of lineage l
    result,       \* result[l]: what init returned for lineage l
    taken,        \* taken[l]: the Wsa handle was consumed (raii, clean) or dropped
    scope,        \* scope[l]: the caller's scope that owns lineage l
    panicked,     \* panicked[l]: the caller's unit of work was aborted
    startups,     \* startups[l]: statuses of the WSAStartup calls of l
    cleanups,     \* cleanups[l]: statuses of the WSACleanup calls of l
    lastStartup,  \* arguments and output of the most recent WSAStartup call
    code,         \* classifier input
    kind,         \* classifier output
    text          \* Display output: the pieces written to the formatter

vars == <<cfg, wsa, raii, result, taken, scope, panicked, startups, cleanups,
          lastStartup, code, kind, text>>

\* ------------------------------------------------------------- WsaError
WsaError == {"SystemNotReady", "VersionNotSupported", "OperationInProgress",
             "TasksLimitReached", "InvalidData", "UnknownError"}

\* a classifier with two digits of one code transposed
FromTypo(err_code) ==
    CASE err_code = 10091 -> "SystemNotReady"
      [] err_code = 10092 -> "VersionNotSupported"
      [] err_code = 10036 -> "OperationInProgress"
      [] err_code = 10076 -> "TasksLimitReached"
      [] err_code = 10014 -> "InvalidData"
      [] OTHER -> "UnknownError"

\* impl From<i32> for WsaError
From(err_code) ==
    CASE err_code = 10091 -> "SystemNotReady"
      [] err_code = 10092 -> "VersionNotSupported"
      [] err_code = 10036 -> "OperationInProgress"
      [] err_code = 10067 -> "TasksLimitReached"
      [] err_code = 10014 -> "InvalidData"
      [] OTHER -> "UnknownError"

\* the reference links of Display
ERR_CODES == "https://docs.microsoft.com/en-us/windows/win32/winsock/windows-sockets-error-codes-2"
GENERAL == "https://docs.microsoft.com/en-us/windows/win32/api/winsock/nf-winsock-wsastartup"

\* the match of Display::fmt: what write! puts out for each variant, cut
\* into pieces at the sentence end, the line break, the quotes and the link
write_arm(k) ==
    CASE k = "UnknownError" ->
           <<"Some unknown error has occurred, it's time to panic", ".", "\n",
             "see ", "\"", GENERAL, "\"", " ">>
      [] k = "SystemNotReady" ->
           <<"The underlying network subsystem is ",
             "not ready for network communication", ".", "\n",
             "see ", "\"", ERR_CODES, "/#WSASYSNOTREADY", "\"", " ">>
      [] k = "VersionNotSupported" ->
           <<"The version of Windows Sockets support requested is not provided by this particular Windows Sockets implementation",
             ".", "\n",
             "see ", "\"", ERR_CODES, "/#WSAVERNOTSUPPORTED", "\"", " ">>
      [] k = "OperationInProgress" ->
           <<"A blocking Windows Sockets 1.1 operation is in progress", ".", "\n",
             "see ", "\"", ERR_CODES, "/#WSAEINPROGRESS", "\"", " ">>
      [] k = "TasksLimitReached" ->
           <<"A limit on the number of tasks supported by the Windows Sockets implementation has been reached",
             ".", "\n",
             "see ", "\"", ERR_CODES, "/#WSAEPROCLIM", "\"", " ">>
      [] k = "InvalidData" ->
           <<"The lpWSAData parameter is not a valid pointer", ".", "\n",
             "see ", "\"", ERR_CODES, "/#WSAEFAULT", "\"", " ">>

\* a Display that leaves out the closing writeln!
fmtForgetsTrailer(k) == write_arm(k)

\* impl Display for WsaError: the arm, then writeln!("for more information")
fmt(k) == write_arm(k) \o <<"for more information", "\n">>

\* ------------------------------------------------------- WsaInitializer
\* MAKEWORD(a, b): low byte a, high byte b
make_version(a, b) == (a % 256) + (b % 256) * 256

Unset == "unset"
UnsetVersion == -1

\* a WsaInitializer that has been moved out of or dropped
NoCfg == [live |-> FALSE, version |-> 0, data |-> Zeroed,
          setVersion |-> UnsetVersion, setData |-> Unset]

\* impl Default for WsaInitializer; setVersion/setData remember the last
\* argument of each setter
WsaInitializerDefault ==
    [live |-> TRUE, version |-> make_version(2, 2), data |-> Zeroed,
     setVersion |-> UnsetVersion, setData |-> Unset]

\* the value of a Result<Wsa>
NoResult == [tag |-> "none", value |-> "none"]
Ok(v) == [tag |-> "Ok", value |-> v]
Err(e) == [tag |-> "Err", value |-> e]

\* the unit struct Wsa(()): it carries no data
WsaUnit == "Wsa(())"

\* an init that always asks for the default version
StartupArgsDefaultVersion(c) == [version |-> make_version(2, 2), data |-> c.data]

\* the arguments init hands to WSAStartup
StartupArgs(c) == [version |-> c.version, data |-> c.data]

\* an init that treats only the statuses it knows as failures
InitResultKnownOnly(status) ==
    IF From(status) = "UnknownError" THEN Ok(WsaUnit) ELSE Err(From(status))

\* the value init returns for the status WSAStartup returned
InitResult(status) == IF status = 0 THEN Ok(WsaUnit) ELSE Err(From(status))

NoStartup == [version |-> 0, data |-> Zeroed, wrote |-> Zeroed]

\* a drop that unwraps the status of WSACleanup
dropUnwrap(calls, p, cs) == [calls |-> Append(calls, cs), panicked |-> p \/ cs # 0]

\* Drop for WsaRaii: one WSACleanup call whose status is discarded
drop(calls, p, cs) == [calls |-> Append(calls, cs), panicked |-> p]

\* dropping n guards one after the other
RECURSIVE DropAll(_, _, _, _)
DropAll(n, calls, p, cs) ==
    IF n = 0 THEN [calls |-> calls, panicked |-> p]
    ELSE LET d == drop(calls, p, cs) IN DropAll(n - 1, d.calls, d.panicked, cs)

\* ------------------------------------------------------------------ Init
InitLife ==
    /\ cfg = [l \in Lineages |-> NoCfg]
    /\ wsa = [l \in Lineages |-> 0]
    /\ raii = [l \in Lineages |-> 0]
    /\ result = [l \in Lineages |-> NoResult]
    /\ taken = [l \in Lineages |-> "none"]
    /\ scope = [l \in Lineages |-> "unborn"]
    /\ panicked = [l \in Lineages |-> FALSE]
    /\ startups = [l \in Lineages |-> <<>>]
    /\ cleanups = [l \in Lineages |-> <<>>]
    /\ lastStartup = NoStartup

Init ==
    /\ InitLife
    /\ code = 0
    /\ kind = "none"
    /\ text = <<>>

\* --------------------------------------------------------------- actions
\* WsaInitializer::default()
Default(l) ==
    /\ scope[l] = "unborn"
    /\ cfg' = [cfg EXCEPT ![l] = WsaInitializerDefault]
    /\ scope' = [scope EXCEPT ![l] = "open"]
    /\ UNCHANGED <<wsa, raii, result, taken, panicked, startups, cleanups,
                   lastStartup, code, kind, text>>

\* WsaInitializer::version(new)
version(l, new) ==
    /\ scope[l] = "open"
    /\ cfg[l].live
    /\ cfg' = [cfg EXCEPT ![l].version = new, ![l].setVersion = new]
    /\ UNCHANGED <<wsa, raii, result, taken, scope, panicked, startups,
                   cleanups, lastStartup, code, kind, text>>

\* a data setter that also puts the version back to its default
dataResetsVersion(l, new) ==
    /\ scope[l] = "open"
    /\ cfg[l].live
    /\ cfg' = [cfg EXCEPT ![l].data = new, ![l].setData = new,
                          ![l].version = make_version(2, 2)]
    /\ UNCHANGED <<wsa, raii, result, taken, scope, panicked, startups,
                   cleanups, lastStartup, code, kind, text>>

\* WsaInitializer::data(new)
data(l, new) ==
    /\ scope[l] = "open"
    /\ cfg[l].live
    /\ cfg' = [cfg EXCEPT ![l].data = new, ![l].setData = new]
    /\ UNCHANGED <<wsa, raii, result, taken, scope, panicked, startups,
                   cleanups, lastStartup, code, kind, text>>

\* the body of init on configuration c of lineage l: one WSAStartup call
\* that returns status and leaves wrote in the buffer; the configuration is
\* consumed and its buffer is dropped with it
InitBody(l, c, status, wrote) ==
    /\ lastStartup' = [version |-> StartupArgs(c).version,
                       data |-> StartupArgs(c).data, wrote |-> wrote]
    /\ startups' = [startups EXCEPT ![l] = Append(@, status)]
    /\ result' = [result EXCEPT ![l] = InitResult(status)]
    /\ wsa' = [wsa EXCEPT ![l] = @ + (IF InitResult(status).tag = "Ok" THEN 1 ELSE 0)]
    /\ cfg' = [cfg EXCEPT ![l] = NoCfg]

\* an init that borrows the configuration instead of consuming it
initBorrows(l, status, wrote) ==
    /\ scope[l] = "open"
    /\ cfg[l].live
    /\ lastStartup' = [version |-> StartupArgs(cfg[l]).version,
                       data |-> StartupArgs(cfg[l]).data, wrote |-> wrote]
    /\ startups' = [startups EXCEPT ![l] = Append(@, status)]
    /\ result' = [result EXCEPT ![l] = InitResult(status)]
    /\ wsa' = [wsa EXCEPT ![l] = @ + (IF InitResult(status).tag = "Ok" THEN 1 ELSE 0)]
    /\ UNCHANGED <<cfg, raii, taken, scope, panicked, cleanups, code, kind, text>>

\* WsaInitializer::init(self)
init(l, status, wrote) ==
    /\ scope[l] = "open"
    /\ cfg[l].live
    /\ InitBody(l, cfg[l], status, wrote)
    /\ UNCHANGED <<raii, taken, scope, panicked, cleanups, code, kind, text>>

\* a raii that borrows the handle instead of consuming it
raiiOpKeepsHandle(l) ==
    /\ scope[l] = "open"
    /\ wsa[l] > 0
    /\ raii' = [raii EXCEPT ![l] = @ + 1]
    /\ taken' = [taken EXCEPT ![l] = "consumed"]
    /\ UNCHANGED <<cfg, wsa, result, scope, panicked, startups, cleanups,
                   lastStartup, code, kind, text>>

\* Wsa::raii(self)
raiiOp(l) ==
    /\ scope[l] = "open"
    /\ wsa[l] > 0
    /\ wsa' = [wsa EXCEPT ![l] = @ - 1]
    /\ raii' = [raii EXCEPT ![l] = @ + 1]
    /\ taken' = [taken EXCEPT ![l] = "consumed"]
    /\ UNCHANGED <<cfg, result, scope, panicked, startups, cleanups,
                   lastStartup, code, kind, text>>

\* a clean that consumes the handle without making a guard
cleanForgets(l, cs) ==
    /\ scope[l] = "open"
    /\ wsa[l] > 0
    /\ wsa' = [wsa EXCEPT ![l] = @ - 1]
    /\ taken' = [taken EXCEPT ![l] = "consumed"]
    /\ UNCHANGED <<cfg, raii, result, scope, panicked, startups, cleanups,
                   lastStartup, code, kind, text>>

\* Wsa::clean(self): self.raii() makes a guard that is dropped at once
clean(l, cs) ==
    /\ scope[l] = "open"
    /\ wsa[l] > 0
    /\ wsa' = [wsa EXCEPT ![l] = @ - 1]
    /\ taken' = [taken EXCEPT ![l] = "consumed"]
    /\ LET d == drop(cleanups[l], panicked[l], cs) IN
         /\ cleanups' = [cleanups EXCEPT ![l] = d.calls]
         /\ panicked' = [panicked EXCEPT ![l] = d.panicked]
    /\ UNCHANGED <<cfg, raii, result, scope, startups, lastStartup, code, kind, text>>

\* a guard whose destruction leaves it usable, so that it is dropped again
DropRaiiKeepsGuard(l, cs) ==
    /\ scope[l] = "open"
    /\ raii[l] > 0
    /\ LET d == drop(cleanups[l], panicked[l], cs) IN
         /\ cleanups' = [cleanups EXCEPT ![l] = d.calls]
         /\ panicked' = [panicked EXCEPT ![l] = d.panicked]
    /\ UNCHANGED <<cfg, wsa, raii, result, taken, scope, startups, lastStartup,
                   code, kind, text>>

\* a WsaRaii guard is destroyed by the caller (drop(guard), end of a block)
DropRaii(l, cs) ==
    /\ scope[l] = "open"
    /\ raii[l] > 0
    /\ raii' = [raii EXCEPT ![l] = @ - 1]
    /\ LET d == drop(cleanups[l], panicked[l], cs) IN
         /\ cleanups' = [cleanups EXCEPT ![l] = d.calls]
         /\ panicked' = [panicked EXCEPT ![l] = d.panicked]
    /\ UNCHANGED <<cfg, wsa, result, taken, scope, startups, lastStartup,
                   code, kind, text>>

\* a Wsa handle whose destruction calls WSACleanup
DropWsaCleans(l) ==
    /\ scope[l] = "open"
    /\ wsa[l] > 0
    /\ wsa' = [wsa EXCEPT ![l] = @ - 1]
    /\ taken' = [taken EXCEPT ![l] = "dropped"]
    /\ cleanups' = [cleanups EXCEPT ![l] = Append(@, 0)]
    /\ UNCHANGED <<cfg, raii, result, scope, panicked, startups,
                   lastStartup, code, kind, text>>

\* a Wsa handle is destroyed unconsumed: Wsa has no Drop impl
DropWsa(l) ==
    /\ scope[l] = "open"
    /\ wsa[l] > 0
    /\ wsa' = [wsa EXCEPT ![l] = @ - 1]
    /\ taken' = [taken EXCEPT ![l] = "dropped"]
    /\ UNCHANGED <<cfg, raii, result, scope, panicked, startups, cleanups,
                   lastStartup, code, kind, text>>

\* a WsaInitializer whose destruction calls WSACleanup
DropInitializerCleans(l) ==
    /\ scope[l] = "open"
    /\ cfg[l].live
    /\ cfg' = [cfg EXCEPT ![l] = NoCfg]
    /\ cleanups' = [cleanups EXCEPT ![l] = Append(@, 0)]
    /\ UNCHANGED <<wsa, raii, result, taken, scope, panicked, startups,
                   lastStartup, code, kind, text>>

\* a WsaInitializer is destroyed unused: it has no Drop impl
DropInitializer(l) ==
    /\ scope[l] = "open"
    /\ cfg[l].live
    /\ cfg' = [cfg EXCEPT ![l] = NoCfg]
    /\ UNCHANGED <<wsa, raii, result, taken, scope, panicked, startups,
                   cleanups, lastStartup, code, kind, text>>

\* a scope end that leaks the guards it still holds
EndScopeLeaks(l, how, cs) ==
    /\ scope[l] = "open"
    /\ scope' = [scope EXCEPT ![l] = how]
    /\ cfg' = [cfg EXCEPT ![l] = NoCfg]
    /\ wsa' = [wsa EXCEPT ![l] = 0]
    /\ raii' = [raii EXCEPT ![l] = 0]
    /\ taken' = [taken EXCEPT ![l] = IF wsa[l] > 0 THEN "dropped" ELSE @]
    /\ UNCHANGED <<result, panicked, startups, cleanups, lastStartup, code, kind, text>>

\* the caller's scope ends (return, early exit or unwind): every value of
\* the lineage that is still alive is destroyed
EndScope(l, how, cs) ==
    /\ scope[l] = "open"
    /\ scope' = [scope EXCEPT ![l] = how]
    /\ cfg' = [cfg EXCEPT ![l] = NoCfg]
    /\ wsa' = [wsa EXCEPT ![l] = 0]
    /\ raii' = [raii EXCEPT ![l] = 0]
    /\ taken' = [taken EXCEPT ![l] = IF wsa[l] > 0 THEN "dropped" ELSE @]
    /\ LET d == DropAll(raii[l], cleanups[l], panicked[l], cs) IN
         /\ cleanups' = [cleanups EXCEPT ![l] = d.calls]
         /\ panicked' = [panicked EXCEPT ![l] = d.panicked]
    /\ UNCHANGED <<result, startups, lastStartup, code, kind, text>>

\* a try_wsa_startup that asks for version 1.1
try_wsa_startupOldVersion(l, status, wrote) ==
    /\ scope[l] = "unborn"
    /\ scope' = [scope EXCEPT ![l] = "open"]
    /\ InitBody(l, [WsaInitializerDefault EXCEPT !.version = make_version(1, 1)],
                status, wrote)
    /\ UNCHANGED <<raii, taken, panicked, cleanups, code, kind, text>>

\* util::try_wsa_startup(): WsaInitializer::default().init()
try_wsa_startup(l, status, wrote) ==
    /\ scope[l] = "unborn"
    /\ scope' = [scope EXCEPT ![l] = "open"]
    /\ InitBody(l, WsaInitializerDefault, status, wrote)
    /\ UNCHANGED <<raii, taken, panicked, cleanups, code, kind, text>>

\* a wsa_startup that hands the failure back instead of unwrapping it
wsa_startupReturns(l, status, wrote) ==
    /\ scope[l] = "unborn"
    /\ scope' = [scope EXCEPT ![l] = "open"]
    /\ InitBody(l, WsaInitializerDefault, status, wrote)
    /\ UNCHANGED <<raii, taken, panicked, cleanups, code, kind, text>>

\* util::wsa_startup(): try_wsa_startup().unwrap()
wsa_startup(l, status, wrote) ==
    /\ scope[l] = "unborn"
    /\ InitBody(l, WsaInitializerDefault, status, wrote)
    /\ IF InitResult(status).tag = "Ok"
         THEN /\ scope' = [scope EXCEPT ![l] = "open"]
              /\ UNCHANGED panicked
         ELSE /\ scope' = [scope EXCEPT ![l] = "unwound"]
              /\ panicked' = [panicked EXCEPT ![l] = TRUE]
    /\ UNCHANGED <<raii, taken, cleanups, code, kind, text>>

\* what WSAStartup leaves in the buffer it was given: the record it
\* populates, whatever the buffer held and whatever status it returns
Buffers(c, status) == Written

\* the statuses the WSACleanup calls of an ending scope may return: only
\* a live guard makes a call
GuardStatuses(l) == IF raii[l] > 0 THEN CleanupStatuses ELSE {0}

Next ==
    \/ \E l \in Lineages : Default(l)
    \/ \E l \in Lineages, new \in NewVersions : version(l, new)
    \/ \E l \in Lineages, new \in NewData : data(l, new)
    \/ \E l \in Lineages, status \in StartupStatuses :
         \E wrote \in Buffers(cfg[l], status) : init(l, status, wrote)
    \/ \E l \in Lineages : raiiOp(l)
    \/ \E l \in Lineages, cs \in CleanupStatuses : clean(l, cs)
    \/ \E l \in Lineages, cs \in CleanupStatuses : DropRaii(l, cs)
    \/ \E l \in Lineages : DropWsa(l)
    \/ \E l \in Lineages : DropInitializer(l)
    \/ \E l \in Lineages, how \in Exits :
         \E cs \in GuardStatuses(l) : EndScope(l, how, cs)
    \/ \E l \in Lineages, status \in StartupStatuses :
         \E wrote \in Buffers(WsaInitializerDefault, status) : try_wsa_startup(l, status, wrote)
    \/ \E l \in Lineages, status \in StartupStatuses :
         \E wrote \in Buffers(WsaInitializerDefault, status) : wsa_startup(l, status, wrote)

Spec == Init /\ [][Next]_vars

\* ------------------------------------- one caller, one lineage, by itself
\* the operations of a program that makes a single lineage
NextSingle ==
    \/ Default(1)
    \/ \E new \in NewVersions : version(1, new)
    \/ \E new \in NewData : data(1, new)
    \/ \E status \in StartupStatuses :
         \E wrote \in Buffers(cfg[1], status) : init(1, status, wrote)
    \/ raiiOp(1)
    \/ \E cs \in CleanupStatuses : clean(1, cs)
    \/ \E cs \in CleanupStatuses : DropRaii(1, cs)
    \/ DropWsa(1)
    \/ DropInitializer(1)
    \/ \E how \in Exits :
         \E cs \in GuardStatuses(1) : EndScope(1, how, cs)
    \/ \E status \in StartupStatuses :
         \E wrote \in Buffers(WsaInitializerDefault, status) : try_wsa_startup(1, status, wrote)
    \/ \E status \in StartupStatuses :
         \E wrote \in Buffers(WsaInitializerDefault, status) : wsa_startup(1, status, wrote)

SpecSingle == Init /\ [][NextSingle]_vars

\* ------------------------------------------------- classifier, by itself
InitClassify ==
    /\ InitLife
    /\ code \in Codes
    /\ kind = "none"
    /\ text = <<>>

\* WsaError::from(code)
Classify ==
    /\ kind = "none"
    /\ kind' = From(code)
    /\ UNCHANGED <<code, text, cfg, wsa, raii, result, taken, scope, panicked,
                   startups, cleanups, lastStartup>>

\* to_string() of the classified error
Describe ==
    /\ kind # "none"
    /\ text = <<>>
    /\ text' = fmt(kind)
    /\ UNCHANGED <<code, kind, cfg, wsa, raii, result, taken, scope, panicked,
                   startups, cleanups, lastStartup>>

NextClassify ==
    \/ Classify
    \/ Describe

SpecClassify == InitClassify /\ [][NextClassify]_vars

\* ------------------------------------------------- views used by claims
\* the lineage state machine: Configured -> Initialized -> Cleaned, or
\* Configured -> Failed
LStateOf(sc, res, w) ==
    IF sc = "unborn" THEN "Unborn"
    ELSE IF res.tag = "none" THEN "Configured"
    ELSE IF res.tag = "Err" THEN "Failed"
    ELSE IF w > 0 THEN "Initialized"
    ELSE "Cleaned"

LState(l) == LStateOf(scope[l], result[l], wsa[l])

RankOf(st) ==
    CASE st = "Unborn" -> 0
      [] st = "Configured" -> 1
      [] st = "Initialized" -> 2
      [] st = "Failed" -> 2
      [] st = "Cleaned" -> 3

\* a WSAStartup call of lineage l returned 0
StartedOk(l) == \E i \in 1..Len(startups[l]) : startups[l][i] = 0

\* the scope that owned lineage l has ended and all its values are gone
Ended(l) == scope[l] \in Exits

\* ------------------------------------------------------------------- C1
\* C1: init returns Ok(Wsa) exactly when the status WSAStartup returned is
\* 0 and Err(WsaError::from(status)) otherwise; every live Wsa handle or
\* WsaRaii guard belongs to a lineage whose WSAStartup call returned 0.
C1_HandleOnlyOnSuccess ==
    \A l \in Lineages :
        /\ startups[l] # <<>> =>
             LET s == startups[l][Len(startups[l])] IN
               /\ (result[l].tag = "Ok") <=> (s = 0)
               /\ s # 0 => result[l] = Err(From(s))
               /\ s # 0 => wsa[l] = 0 /\ raii[l] = 0 /\ taken[l] = "none"
        /\ (wsa[l] > 0 \/ raii[l] > 0) => StartedOk(l)

C1_Witness ==
    \E l, m \in Lineages :
        /\ wsa[l] = 1 /\ result[l].tag = "Ok" /\ startups[l] = <<0>>
        /\ result[m] = Err("UnknownError") /\ startups[m] = <<99999>>

\* ------------------------------------------------------------------- C2
\* C2: a lineage makes at most one WSACleanup call, whatever the order of
\* the public operations and drops.
C2_AtMostOneCleanup ==
    \A l \in Lineages : Len(cleanups[l]) <= 1

C2_Witness ==
    \E l \in Lineages :
        /\ Ended(l) /\ StartedOk(l) /\ Len(cleanups[l]) = 1
        /\ wsa[l] = 0 /\ raii[l] = 0

\* ------------------------------------------------------------------- C3
\* C3: once a handle has been consumed by clean(), or by raii() and the
\* guard has gone, the lineage has made exactly one WSACleanup call; while
\* the guard made by raii() is alive it has made none.
C3_ExactlyOneAfterConsume ==
    \A l \in Lineages :
        /\ (taken[l] = "consumed" /\ raii[l] = 0) => Len(cleanups[l]) = 1
        /\ (taken[l] = "consumed" /\ raii[l] > 0) => Len(cleanups[l]) = 0

C3_Witness ==
    \E l \in Lineages :
        /\ taken[l] = "consumed" /\ raii[l] = 0 /\ Ended(l)
        /\ Len(cleanups[l]) = 1
        /\ lastStartup.version = 514 /\ lastStartup.data = Zeroed
        /\ \A m \in Lineages \ {l} : scope[m] = "unborn"

\* ------------------------------------------------------------------- C4
\* C4 as stated: once the scope of a successfully initialized lineage has
\* ended, the lineage has made exactly one WSACleanup call.
C4_Original ==
    \A l \in Lineages :
        (Ended(l) /\ result[l].tag = "Ok") => Len(cleanups[l]) = 1

\* C4 as amended: once the scope of a successfully initialized lineage has
\* ended, the lineage has made exactly one WSACleanup call if its handle
\* was consumed by raii() or clean(), and none if the handle was destroyed
\* unconsumed.
C4_CleanupIffConsumed ==
    \A l \in Lineages :
        (Ended(l) /\ result[l].tag = "Ok") =>
            /\ taken[l] \in {"consumed", "dropped"}
            /\ taken[l] = "consumed" => Len(cleanups[l]) = 1
            /\ taken[l] = "dropped" => Len(cleanups[l]) = 0

C4_Witness ==
    \E l, m \in Lineages :
        /\ scope[l] = "unwound" /\ taken[l] = "consumed" /\ Len(cleanups[l]) = 1
        /\ scope[m] = "early" /\ taken[m] = "dropped" /\ Len(cleanups[m]) = 0
        /\ result[m].tag = "Ok"

\* ------------------------------------------------------------------- C5
\* C5: a step that makes a WSACleanup call for a lineage starts in a state
\* where a WSAStartup call of that lineage has already returned 0; a
\* lineage whose WSAStartup returned nonzero never makes one.
C5_CleanupAfterStartup ==
    [][\A l \in Lineages :
          /\ Len(cleanups'[l]) > Len(cleanups[l]) => StartedOk(l)
          /\ (startups[l] # <<>> /\ ~StartedOk(l)) => cleanups'[l] = <<>>]_vars

C5_Witness ==
    \E l, m \in Lineages :
        /\ startups[l] = <<0>> /\ Len(cleanups[l]) = 1
        /\ startups[m] = <<10091>> /\ cleanups[m] = <<>> /\ Ended(m)

\* ------------------------------------------------------------------- C6
\* C6: the classifier maps 10091, 10092, 10036, 10067 and 10014 to their
\* variants and every other i32 code to UnknownError.
C6_ClassifierTable ==
    kind # "none" =>
        /\ kind \in WsaError
        /\ code = 10091 => kind = "SystemNotReady"
        /\ code = 10092 => kind = "VersionNotSupported"
        /\ code = 10036 => kind = "OperationInProgress"
        /\ code = 10067 => kind = "TasksLimitReached"
        /\ code = 10014 => kind = "InvalidData"
        /\ code \notin {10091, 10092, 10036, 10067, 10014} => kind = "UnknownError"

C6_Witness == code = 10067 /\ kind = "TasksLimitReached"

\* ------------------------------------------------------------------- C7
\* C7: whatever status WSACleanup returned, the lineage that made the call
\* is left Cleaned with no live value, its init result untouched and its
\* caller not aborted.
C7_CleanupStatusDiscarded ==
    \A l \in Lineages :
        cleanups[l] # <<>> =>
            /\ ~panicked[l]
            /\ result[l] = Ok(WsaUnit)
            /\ LState(l) = "Cleaned"
            /\ raii[l] = 0

C7_Witness ==
    \E l, m \in Lineages :
        /\ cleanups[l] = <<-1>> /\ scope[l] = "open"
        /\ cleanups[m] = <<-1>> /\ scope[m] = "returned"

\* ------------------------------------------------------------------- C8
\* the arguments the configuration of lineage l stands for: the last
\* argument of each setter, or the defaults 0x0202 and the zeroed record
ExpectedVersion(l) ==
    IF cfg[l].setVersion = UnsetVersion THEN 514 ELSE cfg[l].setVersion

ExpectedData(l) ==
    IF cfg[l].setData = Unset THEN "zeroed" ELSE cfg[l].setData

\* C8: a step in which init returns makes exactly one WSAStartup call, and
\* its arguments are the version last set (or 0x0202) and the buffer last
\* set (or the zeroed one).
C8_OneStartupWithConfiguredArgs ==
    [][\A l \in Lineages :
          (result'[l] # result[l] \/ startups'[l] # startups[l]) =>
              /\ Len(startups'[l]) = Len(startups[l]) + 1
              /\ SubSeq(startups'[l], 1, Len(startups[l])) = startups[l]
              /\ result'[l] # NoResult
              /\ lastStartup'.version = ExpectedVersion(l)
              /\ lastStartup'.data = ExpectedData(l)]_vars

C8_Witness ==
    /\ lastStartup.version = 257
    /\ lastStartup.data = "injected"
    /\ \E l \in Lineages : startups[l] = <<10091>>

\* ------------------------------------------------------------------- C9
\* the Wsa handles lineage l has produced: the live ones and the one taken
Handles(l) == wsa[l] + (IF taken[l] = "none" THEN 0 ELSE 1)

\* C9: a lineage only moves forward along Configured -> Initialized ->
\* Cleaned or Configured -> Failed: init runs at most once per
\* configuration, yields at most one handle, and once it has returned the
\* configuration is gone and the result stays.
C9_ForwardOnly ==
    [][\A l \in Lineages :
          /\ RankOf(LStateOf(scope'[l], result'[l], wsa'[l])) >= RankOf(LState(l))
          /\ result[l] # NoResult =>
                /\ result'[l] = result[l]
                /\ startups'[l] = startups[l]
                /\ ~cfg[l].live /\ ~cfg'[l].live
          /\ Len(startups'[l]) <= 1
          /\ wsa'[l] + (IF taken'[l] = "none" THEN 0 ELSE 1) <= 1]_vars

C9_Witness ==
    \E l, m \in Lineages :
        /\ LState(l) = "Cleaned" /\ Handles(l) = 1
        /\ LState(m) = "Failed" /\ Handles(m) = 0

\* ------------------------------------------------------------------ C10
\* C10: when init succeeds, the value it returns carries the record that
\* the WSAStartup call wrote.
C10_RecordExposed ==
    [][\A l \in Lineages :
          (startups'[l] # startups[l] /\ result'[l].tag = "Ok") =>
              result'[l].value = lastStartup'.wrote]_vars

\* ------------------------------------------------------------------ C11
\* C11: wsa_startup() returns a handle when WSAStartup returns 0; for any
\* other status it aborts its caller: no handle or guard is produced, no
\* WSACleanup call is made, and the aborted caller does nothing more.
C11_StartupPanicsOnFailure ==
    [][\A l \in Lineages :
          /\ \A status \in StartupStatuses, wrote \in Written :
                wsa_startup(l, status, wrote) =>
                    IF status = 0
                      THEN /\ wsa'[l] = 1 /\ result'[l].tag = "Ok"
                           /\ ~panicked'[l] /\ scope'[l] = "open"
                      ELSE /\ panicked'[l] /\ scope'[l] # "open"
                           /\ wsa'[l] = 0 /\ raii'[l] = 0
                           /\ cleanups'[l] = <<>>
          /\ panicked[l] =>
                /\ wsa'[l] = 0 /\ raii'[l] = 0 /\ cleanups'[l] = <<>>
                /\ panicked'[l] /\ scope'[l] = scope[l]
                /\ startups'[l] = startups[l] /\ result'[l] = result[l]]_vars

C11_Witness ==
    \E l \in Lineages :
        /\ panicked[l] /\ scope[l] = "unwound"
        /\ startups[l] = <<99999>> /\ result[l] = Err("UnknownError")
        /\ wsa[l] = 0 /\ raii[l] = 0 /\ cleanups[l] = <<>>

\* ------------------------------------------------------------------ C12
\* one WSAStartup call for version 2.2 with the zeroed buffer, returning
\* status, and the value init makes of it, for a lineage left open
DefaultStartupOutcome(l, status, wrote) ==
    /\ lastStartup' = [version |-> 514, data |-> "zeroed", wrote |-> wrote]
    /\ startups'[l] = Append(startups[l], status)
    /\ result'[l] = IF status = 0 THEN Ok(WsaUnit) ELSE Err(From(status))
    /\ wsa'[l] = wsa[l] + (IF status = 0 THEN 1 ELSE 0)
    /\ ~cfg'[l].live /\ scope'[l] = "open"
    /\ raii'[l] = raii[l] /\ taken'[l] = taken[l]
    /\ panicked'[l] = panicked[l] /\ cleanups'[l] = cleanups[l]

\* C12: try_wsa_startup() and init() on a fresh default configuration
\* make the same single WSAStartup call and leave the same result, for
\* every status; default() itself makes no foreign call and changes
\* nothing but the configuration it creates.
C12_TryStartupIsDefaultInit ==
    [][\A l \in Lineages :
          /\ \A status \in StartupStatuses, wrote \in Written :
                /\ try_wsa_startup(l, status, wrote) =>
                      DefaultStartupOutcome(l, status, wrote)
                /\ (/\ init(l, status, wrote)
                    /\ cfg[l].setVersion = UnsetVersion
                    /\ cfg[l].setData = Unset) =>
                      DefaultStartupOutcome(l, status, wrote)
          /\ Default(l) =>
                /\ startups' = startups /\ cleanups' = cleanups
                /\ lastStartup' = lastStartup
                /\ cfg'[l].live /\ cfg'[l].version = 514 /\ cfg'[l].data = "zeroed"
                /\ scope'[l] = "open"
                /\ wsa' = wsa /\ raii' = raii /\ result' = result
                /\ taken' = taken /\ panicked' = panicked]_vars

C12_Witness ==
    \E l \in Lineages :
        /\ startups[l] = <<10091>> /\ result[l] = Err("SystemNotReady")
        /\ scope[l] = "open" /\ wsa[l] = 0 /\ ~cfg[l].live
        /\ lastStartup = [version |-> 514, data |-> "zeroed", wrote |-> "negotiated"]

\* ------------------------------------------------------------------ C13
\* the position of the first line break of t, or 0
RECURSIVE FirstBreak(_, _)
FirstBreak(t, i) ==
    IF i > Len(t) THEN 0
    ELSE IF t[i] = "\n" THEN i
    ELSE FirstBreak(t, i + 1)

\* C13: the Display text of each variant is non-empty: a first line that
\* is a sentence, then a line that holds a "see " reference to a link and
\* the words "for more information"; the text of SystemNotReady says
\* "not ready for network communication".
C13_DisplayText ==
    text # <<>> =>
        LET b == FirstBreak(text, 1)
            n == Len(text)
            second == {text[i] : i \in (b + 1)..(n - 1)} IN
          /\ kind \in WsaError
          /\ b > 2 /\ text[b - 1] = "." /\ text[1] # ""
          /\ text[n] = "\n" /\ n > b
          /\ "\n" \notin second
          /\ \E i \in (b + 1)..(n - 3) :
                /\ text[i] = "see " /\ text[i + 1] = "\""
                /\ text[i + 2] \in {ERR_CODES, GENERAL}
          /\ "for more information" \in second
          /\ kind = "SystemNotReady" =>
                \E i \in 1..(b - 1) : text[i] = "not ready for network communication"

C13_Witness ==
    /\ kind = "SystemNotReady"
    /\ Len(text) = 12
    /\ text[2] = "not ready for network communication"
    /\ text[11] = "for more information"

\* ------------------------------------------------------------------ C14
\* the number of WSAStartup calls of lineage l that returned 0
OkStartups(l) == Cardinality({i \in 1..Len(startups[l]) : startups[l][i] = 0})

RECURSIVE SumOver(_, _)
SumOver(f, n) == IF n = 0 THEN 0 ELSE f[n] + SumOver(f, n - 1)

TotalCleanups == SumOver([l \in Lineages |-> Len(cleanups[l])], NumLineages)
TotalOkStartups == SumOver([l \in Lineages |-> OkStartups(l)], NumLineages)

\* C14: over all lineages together, the WSACleanup calls made so far never
\* outnumber the WSAStartup calls that returned 0.
C14_BalanceNeverNegative == TotalCleanups <= TotalOkStartups

C14_Witness ==
    \E l, m \in Lineages :
        /\ l # m
        /\ startups[l] = <<0>> /\ Len(cleanups[l]) = 1
        /\ startups[m] = <<0>> /\ raii[m] = 1 /\ cleanups[m] = <<>>
        /\ TotalCleanups = 1 /\ TotalOkStartups = 2

\* ------------------------------------------------------------------ C15
\* C15: default, version, data, init, raii and the destruction of a
\* WsaInitializer or of a Wsa handle leave the WSACleanup log as it is;
\* clean() has made its call when it returns and leaves no guard, raii()
\* leaves a guard and no call; the log grows only in a step that destroys
\* a guard.
C15_CleanupOnlyOnGuardDrop ==
    [][\A l \in Lineages :
          /\ \/ cleanups' = cleanups
             \/ ~(\/ Default(l)
                  \/ \E new \in NewVersions : version(l, new)
                  \/ \E new \in NewData : data(l, new)
                  \/ \E status \in StartupStatuses, wrote \in Written :
                        init(l, status, wrote)
                  \/ raiiOp(l)
                  \/ DropWsa(l)
                  \/ DropInitializer(l))
          /\ raiiOp(l) => raii'[l] = raii[l] + 1
          /\ \A cs \in CleanupStatuses :
                /\ clean(l, cs) =>
                      /\ cleanups'[l] = Append(cleanups[l], cs)
                      /\ raii'[l] = raii[l]
                /\ DropRaii(l, cs) => cleanups'[l] = Append(cleanups[l], cs)
          /\ Len(cleanups'[l]) > Len(cleanups[l]) =>
                \/ raii'[l] < raii[l]
                \/ /\ wsa'[l] < wsa[l] /\ taken'[l] = "consumed"
                   /\ scope'[l] = "open" /\ raii'[l] = raii[l]]_vars

C15_Witness ==
    \E l, m \in Lineages :
        /\ raii[l] = 1 /\ taken[l] = "consumed" /\ cleanups[l] = <<>>
        /\ taken[m] = "dropped" /\ wsa[m] = 0 /\ cleanups[m] = <<>>
        /\ scope[m] = "returned" /\ result[m].tag = "Ok"

\* ------------------------------------------------------------------ C16
\* C16: version(new) stores new and leaves the buffer, data(new) stores
\* new and leaves the version, neither makes a foreign call; so a live
\* configuration holds in each field the last argument of that field's
\* setter, or the default (0x0202, the zeroed record) if it was never
\* called.
C16_SettersOwnFieldOnly ==
    [][\A l \in Lineages :
          /\ \A new \in NewVersions :
                version(l, new) =>
                    /\ cfg'[l].version = new /\ cfg'[l].data = cfg[l].data
                    /\ cfg'[l].live
                    /\ startups' = startups /\ cleanups' = cleanups
                    /\ lastStartup' = lastStartup
          /\ \A new \in NewData :
                data(l, new) =>
                    /\ cfg'[l].data = new /\ cfg'[l].version = cfg[l].version
                    /\ cfg'[l].live
                    /\ startups' = startups /\ cleanups' = cleanups
                    /\ lastStartup' = lastStartup
          /\ cfg'[l].live =>
                /\ cfg'[l].version =
                      (IF cfg'[l].setVersion = UnsetVersion THEN 514
                       ELSE cfg'[l].setVersion)
                /\ cfg'[l].data =
                      (IF cfg'[l].setData = Unset THEN "zeroed"
                       ELSE cfg'[l].setData)]_vars

C16_Witness ==
    \E l \in Lineages :
        /\ cfg[l].live
        /\ cfg[l].version = 257 /\ cfg[l].setVersion = 257
        /\ cfg[l].data = "zeroed" /\ cfg[l].setData = "zeroed"
        /\ startups[l] = <<>> /\ cleanups[l] = <<>>

====
